---- MODULE Spec2Model ----
(***************************************************************************)
(* A model of p3py: the GLS engine (gls.py), the PPP detector (gls.py),    *)
(* the Bayesian M+W update (sammy/_utils.py) and the normalization methods *)
(* 1, 2, 2a, 2b (sammy/methods.py).                                        *)
(*                                                                         *)
(* The numbers of the GLS engine, of the M+W update and of the methods are *)
(* exact rationals <<num, den>> (den > 0, lowest terms), the element-wise  *)
(* square root an exact surd c*sqrt(r): their results are real numbers,    *)
(* which floating point approximates.  The PPP detector returns the        *)
(* outcome of a strict comparison of two rounded numbers, so its numbers   *)
(* are IEEE 754 binary64 values, rounded as numpy rounds them.  Arrays are *)
(* numpy arrays: a shape and the elements in row-major order.  Every call  *)
(* is one action; the operations a call performs (array constructions,     *)
(* inverses, products, nested calls, prints, the raise) are recorded in    *)
(* order in its log.                                                       *)
(***************************************************************************)
EXTENDS Integers, Sequences, FiniteSets, TLC

VARIABLES op, args, out

vars == <<op, args, out>>

-----------------------------------------------------------------------------
(* Bounds of the enumerated inputs.                                        *)

\* largest extent of any array axis handed to the GLS engine
MaxDim == 2
\* counts r[0], r[1] range over 0..MaxR
MaxR == 2
\* count uncertainties dr[0], dr[1] range over 1..MaxDr
MaxDr == 2
\* the normalization n ranges over 1..MaxN
MaxN == 2
\* the normalization uncertainty dn ranges over 1..MaxDn
MaxDn == 2
\* diagonal entries of the PPP detector's V range over 1..MaxDiag
MaxDiag == 5
\* entries of P, D, T handed to the M+W update range over 0..MaxVal
MaxVal == 1

-----------------------------------------------------------------------------
(* Exact rational arithmetic (Python/numpy float arithmetic, idealised).   *)

Abs(x) == IF x < 0 THEN -x ELSE x

RECURSIVE GCD(_, _)
GCD(a, b) == IF b = 0 THEN a ELSE GCD(b, a % b)

Rat(n, d) ==
    LET g == GCD(Abs(n), Abs(d))
        s == IF d < 0 THEN -1 ELSE 1
    IN  <<(s * n) \div g, (s * d) \div g>>

RInt(n) == <<n, 1>>

RAdd(x, y) ==
    LET g == GCD(x[2], y[2])
    IN  Rat(x[1] * (y[2] \div g) + y[1] * (x[2] \div g), (x[2] \div g) * y[2])

RNeg(x) == <<-x[1], x[2]>>

RSub(x, y) == RAdd(x, RNeg(y))

RMul(x, y) ==
    LET g1 == GCD(Abs(x[1]), y[2])
        g2 == GCD(Abs(y[1]), x[2])
    IN  Rat((x[1] \div g1) * (y[1] \div g2), (x[2] \div g2) * (y[2] \div g1))

\* defined for y # 0 only
RDiv(x, y) == RMul(x, Rat(y[2], y[1]))

RLt(x, y) == x[1] * y[2] < y[1] * x[2]

RIsZero(x) == x[1] = 0

(* A surd [c, r] is the real number c * sqrt(r), c rational, r a positive  *)
(* rational: the values np.sqrt produces in get_gls_unc.                   *)
Surd(c, r) == [c |-> c, r |-> r]

\* not-a-number: the one surd with radicand 0
NaN == Surd(RInt(0), RInt(0))

\* np.sqrt of one element: nan below zero
SurdSqrt(x) ==
    IF x[1] < 0 THEN NaN
    ELSE IF x[1] = 0 THEN Surd(RInt(0), RInt(1))
    ELSE Surd(RInt(1), x)

-----------------------------------------------------------------------------
(* IEEE 754 binary64, the float64 of numpy: the PPP detector returns the   *)
(* outcome of a strict comparison of two rounded values, so its arithmetic *)
(* is modelled as the hardware does it, each operation rounded to the      *)
(* nearest value of 53 significant bits, ties to even.  Natural numbers of *)
(* any size are sequences of limbs, least significant first, without       *)
(* leading zero limbs.                                                     *)

LimbBits == 15   \* the product of two limbs fits the integers of TLC

Base == 2^LimbBits

Mant == 53       \* significant bits of a binary64 value

RECURSIVE BigOf(_)
BigOf(n) == IF n = 0 THEN <<>> ELSE <<n % Base>> \o BigOf(n \div Base)

RECURSIVE BTrim(_)
BTrim(a) ==
    IF a = <<>> THEN <<>>
    ELSE IF a[Len(a)] = 0 THEN BTrim(SubSeq(a, 1, Len(a) - 1))
    ELSE a

RECURSIVE BCmpAt(_, _, _)
BCmpAt(a, b, i) ==
    IF i = 0 THEN 0
    ELSE IF a[i] < b[i] THEN -1
    ELSE IF a[i] > b[i] THEN 1
    ELSE BCmpAt(a, b, i - 1)

\* -1, 0 or 1 as a < b, a = b or a > b
BCmp(a, b) ==
    IF Len(a) < Len(b) THEN -1
    ELSE IF Len(a) > Len(b) THEN 1
    ELSE BCmpAt(a, b, Len(a))

Limb(a, i) == IF i <= Len(a) THEN a[i] ELSE 0

RECURSIVE BAddFrom(_, _, _, _)
BAddFrom(a, b, i, carry) ==
    IF i > Len(a) /\ i > Len(b) THEN (IF carry = 0 THEN <<>> ELSE <<carry>>)
    ELSE <<(Limb(a, i) + Limb(b, i) + carry) % Base>>
         \o BAddFrom(a, b, i + 1, (Limb(a, i) + Limb(b, i) + carry) \div Base)

BAdd(a, b) == BAddFrom(a, b, 1, 0)

RECURSIVE BSubFrom(_, _, _, _)
BSubFrom(a, b, i, borrow) ==
    IF i > Len(a) THEN <<>>
    ELSE <<(a[i] - Limb(b, i) - borrow + Base) % Base>>
         \o BSubFrom(a, b, i + 1, IF a[i] - Limb(b, i) - borrow < 0 THEN 1 ELSE 0)

\* a - b, for a >= b
BSub(a, b) == BTrim(BSubFrom(a, b, 1, 0))

RECURSIVE BScaleFrom(_, _, _, _)
BScaleFrom(a, k, i, carry) ==
    IF i > Len(a) THEN (IF carry = 0 THEN <<>> ELSE <<carry>>)
    ELSE <<(a[i] * k + carry) % Base>>
         \o BScaleFrom(a, k, i + 1, (a[i] * k + carry) \div Base)

\* a * k, for a limb k
BScale(a, k) == IF k = 0 THEN <<>> ELSE BScaleFrom(a, k, 1, 0)

BShiftLimb(a) == IF a = <<>> THEN <<>> ELSE <<0>> \o a

RECURSIVE BMul(_, _)
BMul(a, b) ==
    IF b = <<>> THEN <<>>
    ELSE BAdd(BScale(a, b[1]), BShiftLimb(BMul(a, Tail(b))))

\* a * 2^k
RECURSIVE BShl(_, _)
BShl(a, k) ==
    IF k = 0 THEN a
    ELSE IF k >= LimbBits THEN BShl(BShiftLimb(a), k - LimbBits)
    ELSE BScale(a, 2^k)

BPow2(k) == BShl(<<1>>, k)

RECURSIVE IntBits(_)
IntBits(n) == IF n = 0 THEN 0 ELSE 1 + IntBits(n \div 2)

\* the number of significant bits of a
BitLen(a) == IF a = <<>> THEN 0 ELSE LimbBits * (Len(a) - 1) + IntBits(a[Len(a)])

Big == Seq(Nat)

\* the largest q + x, x a multiple of 2^lo below 2^(i+1), with (q + x) * D <= N
BDivBits[N \in Big, D \in Big, q \in Big, i \in Int, lo \in Int] ==
    IF i < lo THEN q
    ELSE IF BCmp(BMul(BAdd(q, BPow2(i)), D), N) <= 0
         THEN BDivBits[N, D, BAdd(q, BPow2(i)), i - 1, lo]
    ELSE BDivBits[N, D, q, i - 1, lo]

\* floor(N / D), for D > 0 and N < D * 2^(4 * LimbBits), a limb at a time
BDiv(N, D) ==
    BDivBits[N, D,
        BDivBits[N, D,
            BDivBits[N, D,
                BDivBits[N, D, <<>>, 4 * LimbBits - 1, 3 * LimbBits],
                3 * LimbBits - 1, 2 * LimbBits],
            2 * LimbBits - 1, LimbBits],
        LimbBits - 1, 0]

\* the largest s + x, x a multiple of 2^lo below 2^(i+1), with (s + x)^2 <= a
BSqrtBits[a \in Big, s \in Big, i \in Int, lo \in Int] ==
    IF i < lo THEN s
    ELSE IF BCmp(BMul(BAdd(s, BPow2(i)), BAdd(s, BPow2(i))), a) <= 0
         THEN BSqrtBits[a, BAdd(s, BPow2(i)), i - 1, lo]
    ELSE BSqrtBits[a, s, i - 1, lo]

\* floor(sqrt(a)), for a < 2^(8 * LimbBits), a limb at a time
BSqrt(a) ==
    BSqrtBits[a,
        BSqrtBits[a,
            BSqrtBits[a,
                BSqrtBits[a, <<>>, 4 * LimbBits - 1, 3 * LimbBits],
                3 * LimbBits - 1, 2 * LimbBits],
            2 * LimbBits - 1, LimbBits],
        LimbBits - 1, 0]

\* the binary64 value s * m * 2^e: sign s, and 2^52 <= m < 2^53 unless s = 0
F64(s, m, e) == [s |-> s, m |-> m, e |-> e]

F64Zero == F64(0, <<>>, 0)

\* a rounded significand that reached 2^53 is 2^52 with the next exponent
F64Norm(s, m, e) == IF BitLen(m) > Mant THEN F64(s, BPow2(Mant - 1), e + 1) ELSE F64(s, m, e)

\* q = floor(N / D) rounded to the nearest integer to N / D, ties to even
RoundQuot(N, D, q) ==
    IF BCmp(BShl(BSub(N, BMul(q, D)), 1), D) > 0 THEN BAdd(q, <<1>>)
    ELSE IF BCmp(BShl(BSub(N, BMul(q, D)), 1), D) = 0 /\ q[1] % 2 = 1 THEN BAdd(q, <<1>>)
    ELSE q

\* the exponent k with 2^52 <= N / (D * 2^k) < 2^53
QuotExp(N, D) ==
    IF BCmp(BShl(N, Mant), BShl(D, BitLen(N) - BitLen(D) + Mant)) < 0
    THEN BitLen(N) - BitLen(D) - Mant
    ELSE BitLen(N) - BitLen(D) - Mant + 1

ScaleN(N, k) == IF k < 0 THEN BShl(N, 0 - k) ELSE N

ScaleD(D, k) == IF k > 0 THEN BShl(D, k) ELSE D

F64Scaled(s, N, D, e) == F64Norm(s, RoundQuot(N, D, BDiv(N, D)), e)

\* s * (N / D) * 2^e rounded to binary64, for N > 0 and D > 0
F64Quot(s, N, D, e) ==
    F64Scaled(s, ScaleN(N, QuotExp(N, D)), ScaleD(D, QuotExp(N, D)), QuotExp(N, D) + e)

\* the binary64 value of the array element x
f64_of(x) ==
    IF x[1] = 0 THEN F64Zero
    ELSE F64Quot(IF x[1] > 0 THEN 1 ELSE -1, BigOf(Abs(x[1])), BigOf(x[2]), 0)

\* x / y, for y # 0
f64_div(x, y) ==
    IF x.s = 0 THEN F64Zero ELSE F64Quot(x.s * y.s, x.m, y.m, x.e - y.e)

\* the even-exponent form M * 2^(e - k) of x, M of 105 or 106 bits
SqrtShift(x) == IF (x.e - (Mant - 1)) % 2 = 0 THEN Mant - 1 ELSE Mant

\* s = floor(sqrt(M)) rounded to the nearest integer to sqrt(M)
RoundSqrt(M, s) == IF BCmp(BSub(M, BMul(s, s)), s) > 0 THEN BAdd(s, <<1>>) ELSE s

F64SqrtOf(M, e) == F64Norm(1, RoundSqrt(M, BSqrt(M)), e \div 2)

\* np.sqrt(x), for x >= 0
f64_sqrt(x) ==
    IF x.s = 0 THEN F64Zero
    ELSE F64SqrtOf(BShl(x.m, SqrtShift(x)), x.e - SqrtShift(x))

\* x < y
f64_lt(x, y) ==
    IF x.s # y.s THEN x.s < y.s
    ELSE IF x.s = 0 THEN FALSE
    ELSE IF x.s = 1 THEN x.e < y.e \/ (x.e = y.e /\ BCmp(x.m, y.m) < 0)
    ELSE y.e < x.e \/ (x.e = y.e /\ BCmp(y.m, x.m) < 0)

\* min(x, y) of Python: y if y < x, otherwise x
py_min(x, y) == IF f64_lt(y, x) THEN y ELSE x

-----------------------------------------------------------------------------
(* numpy arrays: [shape, flat], the elements in row-major order.           *)

Arr(shape, flat) == [shape |-> shape, flat |-> flat]

Rank(A) == Len(A.shape)

RECURSIVE SeqProd(_)
SeqProd(s) == IF s = <<>> THEN 1 ELSE Head(s) * SeqProd(Tail(s))

RECURSIVE SumSeq(_)
SumSeq(s) == IF s = <<>> THEN RInt(0) ELSE RAdd(Head(s), SumSeq(Tail(s)))

RECURSIVE Concat(_)
Concat(ss) == IF ss = <<>> THEN <<>> ELSE Head(ss) \o Concat(Tail(ss))

\* the r x c matrix whose (i, j) element is f[i][j]
Mat(r, c, f) ==
    Arr(<<r, c>>, [k \in 1..(r * c) |-> f[((k - 1) \div c) + 1][((k - 1) % c) + 1]])

\* A[i-1, j-1] of a 2-D array
At(A, i, j) == A.flat[(i - 1) * A.shape[2] + j]

Rows(A) == A.shape[1]

Cols(A) == A.shape[2]

\* A.T for arrays of rank <= 2 (rank < 2: unchanged)
np_T(A) ==
    IF Rank(A) < 2 THEN A
    ELSE Mat(Cols(A), Rows(A), [i \in 1..Cols(A) |-> [j \in 1..Rows(A) |-> At(A, j, i)]])

\* np.ones((n, 1))
np_ones_col(n) == Arr(<<n, 1>>, [k \in 1..n |-> RInt(1)])

\* np.zeros((n, n))
np_zeros(n) == Arr(<<n, n>>, [k \in 1..(n * n) |-> RInt(0)])

\* np.diag(v) of a 1-D array: the square matrix with v on the diagonal
np_diag_of(v) ==
    LET n == v.shape[1]
    IN  Mat(n, n, [i \in 1..n |-> [j \in 1..n |-> IF i = j THEN v.flat[i] ELSE RInt(0)]])

\* the matrices stacked in an array of rank 2 (one) or 3
Slices(A) ==
    IF Rank(A) = 2 THEN <<A>>
    ELSE LET sz == A.shape[2] * A.shape[3]
         IN  [b \in 1..A.shape[1] |->
                Arr(<<A.shape[2], A.shape[3]>>, SubSeq(A.flat, (b - 1) * sz + 1, b * sz))]

\* M with row i and column j removed
Minor(M, i, j) ==
    LET n == Rows(M)
    IN  Mat(n - 1, n - 1,
            [a \in 1..(n - 1) |-> [b \in 1..(n - 1) |->
                At(M, IF a < i THEN a ELSE a + 1, IF b < j THEN b ELSE b + 1)]])

RECURSIVE Det(_)
Det(M) ==
    IF Rows(M) = 1 THEN At(M, 1, 1)
    ELSE SumSeq([j \in 1..Rows(M) |->
            LET t == RMul(At(M, 1, j), Det(Minor(M, 1, j)))
            IN  IF j % 2 = 1 THEN t ELSE RNeg(t)])

\* the inverse of one nonsingular square matrix
Inverse(M) ==
    LET n == Rows(M)
        d == Det(M)
    IN  IF n = 1 THEN Mat(1, 1, <<<<RDiv(RInt(1), d)>>>>)
        ELSE Mat(n, n, [i \in 1..n |-> [j \in 1..n |->
                LET c == RDiv(Det(Minor(M, j, i)), d)
                IN  IF (i + j) % 2 = 0 THEN c ELSE RNeg(c)]])

\* la.inv raises LinAlgError: fewer than two axes, last two axes not square,
\* or a singular matrix in the stack
la_inv_fails(A) ==
    \/ Rank(A) < 2
    \/ A.shape[Rank(A) - 1] # A.shape[Rank(A)]
    \/ \E b \in DOMAIN Slices(A) : RIsZero(Det(Slices(A)[b]))

la_inv(A) ==
    LET inv == [b \in DOMAIN Slices(A) |-> Inverse(Slices(A)[b])]
    IN  Arr(A.shape, Concat([b \in DOMAIN inv |-> inv[b].flat]))

\* the operands of @ with a 1-D operand promoted to a matrix
Promote(A, left) ==
    IF Rank(A) = 1
    THEN Arr(IF left THEN <<1, A.shape[1]>> ELSE <<A.shape[1], 1>>, A.flat)
    ELSE A

Batch(A) == IF Rank(A) = 3 THEN A.shape[1] ELSE 1

Max(a, b) == IF a < b THEN b ELSE a

\* A @ B raises ValueError
np_matmul_fails(A, B) ==
    \/ Rank(A) = 0
    \/ Rank(B) = 0
    \/ LET A2 == Promote(A, TRUE)
           B2 == Promote(B, FALSE)
       IN  \/ A2.shape[Rank(A2)] # B2.shape[Rank(B2) - 1]
           \/ Batch(A2) # Batch(B2) /\ Batch(A2) # 1 /\ Batch(B2) # 1

MatMul2(A, B) ==
    Mat(Rows(A), Cols(B),
        [i \in 1..Rows(A) |-> [j \in 1..Cols(B) |->
            SumSeq([k \in 1..Cols(A) |-> RMul(At(A, i, k), At(B, k, j))])]])

\* A @ B with numpy's promotion of 1-D operands and broadcasting of stacks
np_matmul(A, B) ==
    LET A2 == Promote(A, TRUE)
        B2 == Promote(B, FALSE)
        nb == Max(Batch(A2), Batch(B2))
        pr == [b \in 1..nb |->
                 MatMul2(Slices(A2)[IF Batch(A2) = 1 THEN 1 ELSE b],
                         Slices(B2)[IF Batch(B2) = 1 THEN 1 ELSE b])]
        core == (IF Rank(A) = 1 THEN <<>> ELSE <<A2.shape[Rank(A2) - 1]>>)
                \o (IF Rank(B) = 1 THEN <<>> ELSE <<B2.shape[Rank(B2)]>>)
        pre == IF Rank(A2) = 3 \/ Rank(B2) = 3 THEN <<nb>> ELSE <<>>
    IN  Arr(pre \o core, Concat([b \in 1..nb |-> pr[b].flat]))

\* a shape of rank <= 2 padded on the left with 1s to rank 2
Pad2(s) == IF Len(s) = 0 THEN <<1, 1>> ELSE IF Len(s) = 1 THEN <<1, s[1]>> ELSE s

\* element-wise A (+|-) B with broadcasting, for operands of rank <= 2
Broadcast2(A, B, minus) ==
    LET sa == Pad2(A.shape)
        sb == Pad2(B.shape)
        r == Max(sa[1], sb[1])
        c == Max(sa[2], sb[2])
        a2 == Arr(sa, A.flat)
        b2 == Arr(sb, B.flat)
        full == Mat(r, c, [i \in 1..r |-> [j \in 1..c |->
                    LET x == At(a2, IF sa[1] = 1 THEN 1 ELSE i, IF sa[2] = 1 THEN 1 ELSE j)
                        y == At(b2, IF sb[1] = 1 THEN 1 ELSE i, IF sb[2] = 1 THEN 1 ELSE j)
                    IN  IF minus THEN RSub(x, y) ELSE RAdd(x, y)]])
        rk == Max(Rank(A), Rank(B))
    IN  Arr(SubSeq(<<r, c>>, 3 - rk, 2), full.flat)

\* A (+|-) B raises ValueError: the shapes do not broadcast
Broadcast2Fails(A, B) ==
    LET sa == Pad2(A.shape)
        sb == Pad2(B.shape)
    IN  \E k \in 1..2 : sa[k] # sb[k] /\ sa[k] # 1 /\ sb[k] # 1

np_add(A, B) == Broadcast2(A, B, FALSE)

np_sub(A, B) == Broadcast2(A, B, TRUE)

\* np.sqrt, element-wise
np_sqrt(A) == Arr(A.shape, [k \in DOMAIN A.flat |-> SurdSqrt(A.flat[k])])

-----------------------------------------------------------------------------
(* The outcome of evaluating an expression or a call: "ok" with the value, *)
(* or the exception raised; log is the sequence of operations performed,   *)
(* in order.  Operands are evaluated left to right, then the operation.    *)

Ok(v, log) == [kind |-> "ok", msg |-> "", val |-> v, log |-> log]

Raise(kind, msg, log) == [kind |-> kind, msg |-> msg, val |-> <<>>, log |-> log]

\* a value at hand: nothing is computed
Pure(v) == Ok(v, <<>>)

\* the outcome res of a call, after the operations in prefix
After(prefix, res) == [res EXCEPT !.log = prefix \o @]

\* la.inv(a)
InvR(a) ==
    IF a.kind # "ok" THEN a
    ELSE IF la_inv_fails(a.val) THEN Raise("LinAlgError", "", a.log \o <<"inv">>)
    ELSE Ok(la_inv(a.val), a.log \o <<"inv">>)

\* a @ b
MatMulR(a, b) ==
    IF a.kind # "ok" THEN a
    ELSE IF b.kind # "ok" THEN After(a.log, b)
    ELSE IF np_matmul_fails(a.val, b.val)
    THEN Raise("ValueError", "", a.log \o b.log \o <<"matmul">>)
    ELSE Ok(np_matmul(a.val, b.val), a.log \o b.log \o <<"matmul">>)

\* a + b
AddR(a, b) ==
    IF a.kind # "ok" THEN a
    ELSE IF b.kind # "ok" THEN After(a.log, b)
    ELSE IF Broadcast2Fails(a.val, b.val)
    THEN Raise("ValueError", "", a.log \o b.log \o <<"add">>)
    ELSE Ok(np_add(a.val, b.val), a.log \o b.log \o <<"add">>)

\* a - b
SubR(a, b) ==
    IF a.kind # "ok" THEN a
    ELSE IF b.kind # "ok" THEN After(a.log, b)
    ELSE IF Broadcast2Fails(a.val, b.val)
    THEN Raise("ValueError", "", a.log \o b.log \o <<"sub">>)
    ELSE Ok(np_sub(a.val, b.val), a.log \o b.log \o <<"sub">>)

\* np.sqrt(a)
SqrtR(a) == IF a.kind # "ok" THEN a ELSE Ok(np_sqrt(a.val), a.log \o <<"sqrt">>)

MsgSquare == "Error: Covariance matrix must be square"

Msg2D == "Error: Covariance matrix must be 2-D"

MsgRows == "Error: Design matrix must have same number of rows as covariance matrix columns."

MsgColumn == "Error: Data points must be given in a column vector."

MsgYRows == "Error: Number of rows in Y must equal size of V."

-----------------------------------------------------------------------------
(* gls.py                                                                  *)

\* la.inv(X.T @ la.inv(V) @ X)
InfoInverse(V, X) ==
    InvR(MatMulR(MatMulR(Pure(np_T(X)), InvR(Pure(V))), Pure(X)))

\* X as get_gls_unc and get_gls_estimate default it: Xopt is <<>> for
\* X=None, <<X>> otherwise
DefaultX(V, Xopt) == IF Xopt = <<>> THEN np_ones_col(V.shape[1]) ELSE Xopt[1]

\* the checks of get_gls_unc, then its return expression
gls_unc_checked(V, X) ==
    IF Rank(V) < 2 THEN Raise("AssertionError", Msg2D, <<>>)
    ELSE IF V.shape[1] # V.shape[2] THEN Raise("AssertionError", MsgSquare, <<>>)
    ELSE IF Rank(X) = 0 THEN Raise("IndexError", "tuple index out of range", <<>>)
    ELSE IF X.shape[1] # V.shape[1] THEN Raise("AssertionError", MsgRows, <<>>)
    ELSE SqrtR(InfoInverse(V, X))

\* get_gls_unc(V, X)
get_gls_unc(V, Xopt) ==
    IF Xopt = <<>> /\ Rank(V) = 0 THEN Raise("TypeError", "len() of unsized object", <<>>)
    ELSE gls_unc_checked(V, DefaultX(V, Xopt))

\* la.inv(X.T @ la.inv(V) @ X) @ X.T @ la.inv(V) @ Y
Estimate(Y, V, X) ==
    MatMulR(MatMulR(MatMulR(InfoInverse(V, X), Pure(np_T(X))), InvR(Pure(V))), Pure(Y))

\* return est, unc
EstimateReturn(est, unc) ==
    IF est.kind # "ok" THEN est ELSE Ok(<<est.val, unc.val>>, est.log)

\* as gls_estimate_checked, with the checks of Y moved ahead of get_gls_unc's outcome
gls_estimate_checked_eager(Y, V, X, unc) ==
    IF Rank(Y) < 2 THEN Raise("IndexError", "tuple index out of range", <<>>)
    ELSE IF Y.shape[2] # 1 THEN Raise("AssertionError", MsgColumn, <<>>)
    ELSE IF Rank(V) >= 1 /\ Y.shape[1] # V.shape[1] THEN Raise("AssertionError", MsgYRows, <<>>)
    ELSE IF unc.kind # "ok" THEN unc
    ELSE EstimateReturn(After(unc.log, Estimate(Y, V, X)), unc)

\* get_gls_estimate after unc = get_gls_unc(V, X): the checks of Y, the estimate
gls_estimate_checked(Y, V, X, unc) ==
    IF unc.kind # "ok" THEN unc
    ELSE IF Rank(Y) < 2 THEN Raise("IndexError", "tuple index out of range", unc.log)
    ELSE IF Y.shape[2] # 1 THEN Raise("AssertionError", MsgColumn, unc.log)
    ELSE IF Y.shape[1] # V.shape[1] THEN Raise("AssertionError", MsgYRows, unc.log)
    ELSE EstimateReturn(After(unc.log, Estimate(Y, V, X)), unc)

\* get_gls_estimate(Y, V, X) with verbose=False
get_gls_estimate(Y, V, Xopt) ==
    IF Xopt = <<>> /\ Rank(V) = 0 THEN Raise("TypeError", "len() of unsized object", <<>>)
    ELSE gls_estimate_checked(Y, V, DefaultX(V, Xopt),
                              get_gls_unc(V, <<DefaultX(V, Xopt)>>))

\* ratio = min(sigma1/sigma2, sigma2/sigma1)
ppp_ratio(sigma1, sigma2) == py_min(f64_div(sigma1, sigma2), f64_div(sigma2, sigma1))

\* rho = V[0,1] / sigma1 / sigma2
ppp_rho(v01, sigma1, sigma2) == f64_div(f64_div(v01, sigma1), sigma2)

\* rho > ratio
ppp_occurs(v01, sigma1, sigma2) == f64_lt(ppp_ratio(sigma1, sigma2), ppp_rho(v01, sigma1, sigma2))

\* verbose mode prints the two values, then the verdict
ppp_prints(verbose) == IF verbose THEN <<"print", "print">> ELSE <<>>

\* check_2x2_matrix_for_PPP(V, verbose): the value is <<>> for None, <<b>> for
\* the bool b; V has a positive diagonal when it is 2x2
check_2x2_matrix_for_PPP(V, verbose) ==
    IF V.shape # <<2, 2>> THEN Ok(<<>>, <<"print">>)
    ELSE Ok(<<ppp_occurs(f64_of(At(V, 1, 2)),
                         f64_sqrt(f64_of(At(V, 1, 1))),
                         f64_sqrt(f64_of(At(V, 2, 2))))>>,
            ppp_prints(verbose))

-----------------------------------------------------------------------------
(* sammy/_utils.py                                                         *)

\* as YVec, with T not subtracted from D
YVec_noT(D, V, T, G) ==
    MatMulR(MatMulR(Pure(np_T(G)), InvR(Pure(V))), Pure(D))

\* Y = G.T @ la.inv(V) @ (D - T)
YVec(D, V, T, G) ==
    MatMulR(MatMulR(Pure(np_T(G)), InvR(Pure(V))), SubR(Pure(D), Pure(T)))

\* W = G.T @ la.inv(V) @ G
WMat(V, G) == MatMulR(MatMulR(Pure(np_T(G)), InvR(Pure(V))), Pure(G))

\* return P_prime, M_prime
MwReturn(P_prime, M_prime) ==
    IF P_prime.kind # "ok" THEN P_prime ELSE Ok(<<P_prime.val, M_prime.val>>, P_prime.log)

\* P_prime = P + M_prime @ Y
PPrime(P, Y, M_prime) ==
    IF M_prime.kind # "ok" THEN M_prime
    ELSE MwReturn(After(M_prime.log, AddR(Pure(P), MatMulR(Pure(M_prime.val), Pure(Y.val)))),
                  M_prime)

\* M_prime = la.inv(M_inv + W), once Y and W are computed
MPrime(M_inv, Y, W) ==
    IF Y.kind # "ok" THEN Y
    ELSE IF W.kind # "ok" THEN After(Y.log, W)
    ELSE After(Y.log \o W.log, InvR(AddR(Pure(M_inv), Pure(W.val))))

\* calc_m_plus_w(P, M_inv, D, V, T, G) with verbose=False
calc_m_plus_w(P, M_inv, D, V, T, G) ==
    PPrime(P, YVec(D, V, T, G), MPrime(M_inv, YVec(D, V, T, G), WMat(V, G)))

-----------------------------------------------------------------------------
(* sammy/methods.py.  r and dr are pairs of numbers, n and dn numbers.     *)

RSq(x) == RMul(x, x)

\* D = np.array([[r[0]],[r[1]]])
method1_D(r) == Mat(2, 1, <<<<r[1]>>, <<r[2]>>>>)

\* as method1_V, with the uncertainties not squared
method1_V_unsquared(dr) == np_diag_of(Arr(<<2>>, <<dr[1], dr[2]>>))

\* V = np.diag(np.array(dr)**2)
method1_V(dr) == np_diag_of(Arr(<<2>>, <<RSq(dr[1]), RSq(dr[2])>>))

\* method1 from the prior X on: T, M_inv, G, P and the M+W update
method1_solve(r, dr, n, dn, X) ==
    After(<<"array", "array", "array", "array", "calc_m_plus_w">>,
          calc_m_plus_w(Mat(2, 1, <<<<X>>, <<n>>>>),
                        Mat(2, 2, <<<<RInt(0), RInt(0)>>, <<RInt(0), RDiv(RInt(1), RSq(dn))>>>>),
                        method1_D(r),
                        method1_V(dr),
                        Mat(2, 1, <<<<RMul(n, X)>>, <<RMul(n, X)>>>>),
                        Mat(2, 2, <<<<n, X>>, <<n, X>>>>)))

\* method1 once get_gls_estimate(D, V) has returned or raised
method1_prior(r, dr, n, dn, est) ==
    IF est.kind # "ok" THEN est
    ELSE After(est.log, method1_solve(r, dr, n, dn, RDiv(At(est.val[1], 1, 1), n)))

\* method1(r, dr, n, dn) with verbose=False
method1(r, dr, n, dn) ==
    After(<<"array", "array", "get_gls_estimate">>,
          method1_prior(r, dr, n, dn, get_gls_estimate(method1_D(r), method1_V(dr), <<>>)))

\* D = np.array([[r[0]/n],[r[1]/n]])
method2_D(r, n) == Mat(2, 1, <<<<RDiv(r[1], n)>>, <<RDiv(r[2], n)>>>>)

\* X = X[0,0] of method1's P_prime
PriorOfMethod1(m1) == IF m1.kind # "ok" THEN m1 ELSE Ok(At(m1.val[1], 1, 1), m1.log)

\* as method2_prior, with the unweighted mean of D for counts_method "exp" too
method2_prior_mean(r, dr, n, dn, counts_method) ==
    IF counts_method = "exp" \/ counts_method = "theo"
    THEN Ok(RDiv(RAdd(RDiv(r[1], n), RDiv(r[2], n)), RInt(2)), <<"mean">>)
    ELSE Raise("NameError", "Unknown counts_method value", <<>>)

\* the prior X of method2 by counts_method
method2_prior(r, dr, n, dn, counts_method) ==
    IF counts_method = "exp"
    THEN After(<<"method1">>, PriorOfMethod1(method1(r, dr, n, dn)))
    ELSE IF counts_method = "theo"
    THEN Ok(RDiv(RAdd(RDiv(r[1], n), RDiv(r[2], n)), RInt(2)), <<"mean">>)
    ELSE Raise("NameError", "Unknown counts_method value", <<>>)

\* the covariance V of method2 (the branch is one of the three)
method2_V(dr, n, dn, D, X, sens_method, counts_method) ==
    LET nn == RSq(n)
        n_rel == RDiv(RSq(dn), RSq(n))
        d0 == At(D, 1, 1)
        d1 == At(D, 2, 1)
        xx == RMul(n_rel, RSq(X))
    IN  IF sens_method = "exp"
        THEN Mat(2, 2,
                 <<<<RAdd(RDiv(RSq(dr[1]), nn), RMul(n_rel, RSq(d0))), RMul(RMul(n_rel, d0), d1)>>,
                   <<RMul(RMul(n_rel, d0), d1), RAdd(RDiv(RSq(dr[2]), nn), RMul(n_rel, RSq(d1)))>>>>)
        ELSE IF counts_method = "exp"
        THEN Mat(2, 2, <<<<RAdd(RDiv(RSq(dr[1]), nn), xx), xx>>,
                         <<xx, RAdd(RDiv(RSq(dr[2]), nn), xx)>>>>)
        ELSE Mat(2, 2, <<<<RAdd(RDiv(X, n), xx), xx>>,
                         <<xx, RAdd(RDiv(X, n), xx)>>>>)

\* method2 from the covariance V on: V, T, M_inv, G, P and the M+W update
method2_solve(r, dr, n, dn, X, sens_method, counts_method) ==
    After(<<"array", "array", "array", "array", "array", "calc_m_plus_w">>,
          calc_m_plus_w(Arr(<<1>>, <<X>>),
                        np_zeros(1),
                        method2_D(r, n),
                        method2_V(dr, n, dn, method2_D(r, n), X, sens_method, counts_method),
                        Mat(2, 1, <<<<X>>, <<X>>>>),
                        Mat(2, 1, <<<<RInt(1)>>, <<RInt(1)>>>>)))

\* method2 once the prior X is computed (or its computation has raised)
method2_variant(r, dr, n, dn, sens_method, counts_method, prior) ==
    IF prior.kind # "ok" THEN prior
    ELSE IF ~(\/ sens_method = "exp"
              \/ sens_method = "theo" /\ counts_method = "exp"
              \/ sens_method = "theo" /\ counts_method = "theo")
    THEN Raise("NameError", "Unknown sens_method value or counts_method value", prior.log)
    ELSE After(prior.log, method2_solve(r, dr, n, dn, prior.val, sens_method, counts_method))

\* as method2, with both variants validated on entry
method2_validated(r, dr, n, dn, sens_method, counts_method) ==
    IF ~(sens_method \in {"exp", "theo"} /\ counts_method \in {"exp", "theo"})
    THEN Raise("NameError", "Unknown sens_method value or counts_method value", <<>>)
    ELSE After(<<"array", "array">>,
               method2_variant(r, dr, n, dn, sens_method, counts_method,
                               method2_prior(r, dr, n, dn, counts_method)))

\* method2(r, dr, n, dn, sens_method, counts_method) with verbose=False
method2(r, dr, n, dn, sens_method, counts_method) ==
    After(<<"array", "array">>,
          method2_variant(r, dr, n, dn, sens_method, counts_method,
                          method2_prior(r, dr, n, dn, counts_method)))

\* as method2a, with counts_method "theo" passed as well
method2a_theo_counts(r, dr, n, dn) == method2(r, dr, n, dn, "theo", "theo")

method2a(r, dr, n, dn) == method2(r, dr, n, dn, "theo", "exp")

\* as method2b, with counts_method left at its default
method2b_exp_counts(r, dr, n, dn) == method2(r, dr, n, dn, "theo", "exp")

method2b(r, dr, n, dn) == method2(r, dr, n, dn, "theo", "theo")

-----------------------------------------------------------------------------
(* Enumerated inputs of the GLS engine and the PPP detector.               *)

ShapesOfRank(k) == [1..k -> 1..MaxDim]

FillVal(f, i, j) ==
    IF f = "ones" THEN 1
    ELSE IF f = "eye" THEN (IF i = j THEN 1 ELSE 0)
    ELSE (IF i = j THEN i + 1 ELSE 1)

\* the array of the given shape whose element at row i, column j of every
\* matrix in it (i = 1 for rank < 2) is FillVal(f, i, j)
Filled(s, f) ==
    LET c == IF Len(s) = 0 THEN 1 ELSE s[Len(s)]
        r == IF Len(s) < 2 THEN 1 ELSE s[Len(s) - 1]
    IN  Arr(s, [k \in 1..SeqProd(s) |->
                  RInt(FillVal(f, (((k - 1) \div c) % r) + 1, ((k - 1) % c) + 1))])

GlsV == {Filled(s, f) : s \in UNION {ShapesOfRank(k) : k \in 0..3}, f \in {"ones", "eye", "spd"}}

GlsX == {<<>>} \cup
        {<<Filled(s, f)>> : s \in UNION {ShapesOfRank(k) : k \in 0..2}, f \in {"ones", "eye"}}

GlsY == {Filled(s, "spd") : s \in UNION {ShapesOfRank(k) : k \in 0..2}}

\* PPP detector: symmetric 2x2 matrices with positive diagonal, and arrays
\* of every other shape
PppV == {Mat(2, 2, <<<<RInt(a), RInt(c)>>, <<RInt(c), RInt(b)>>>>) :
            a \in 1..MaxDiag, b \in 1..MaxDiag, c \in (0 - MaxDiag)..MaxDiag}
        \cup {Filled(s, "spd") : s \in UNION {ShapesOfRank(k) : k \in 0..3}}

\* M+W update: two data points, p = 1 or 2 parameters; the data D are the
\* theoretical values T plus a residual res of zeros and ones
Column(n, vals) == {Arr(<<n, 1>>, f) : f \in [1..n -> {RInt(v) : v \in vals}]}

MwV == {Filled(<<2, 2>>, f) : f \in {"ones", "eye", "spd"}}

MwG(p) == {Filled(<<2, p>>, f) : f \in {"ones", "eye", "spd"}}

\* the prior inverse covariance: all zero, or 1 in the last diagonal place
MwMinv(p) ==
    {Mat(p, p, [i \in 1..p |-> [j \in 1..p |->
        RInt(IF i = p /\ j = p THEN last ELSE 0)]]) : last \in 0..1}


\* normalization methods: the counts r, their uncertainties dr (0 makes
\* diag(dr^2) singular), the normalization n > 0 and its uncertainty dn > 0
Counts == {<<RInt(a), RInt(b)>> : a \in 0..MaxR, b \in 0..MaxR}

CountUncs == {<<RInt(a), RInt(b)>> : a \in 0..MaxDr, b \in 0..MaxDr}

Norms == {RInt(k) : k \in 1..MaxN}

NormUncs == {RInt(k) : k \in 1..MaxDn}

\* what a caller may pass for sens_method and counts_method
Variants == {"exp", "theo", "bogus"}

-----------------------------------------------------------------------------
(* The calls.  Execution is synchronous and single-threaded: a call starts  *)
(* when no call is in progress, runs to its return or raise, and its       *)
(* outcome is discarded (Return) before the next call.  No state survives. *)

Idle == op = "none"

Init ==
    /\ op = "none"
    /\ args = <<>>
    /\ out = Ok(<<>>, <<>>)

Return ==
    /\ ~Idle
    /\ op' = "none"
    /\ args' = <<>>
    /\ out' = Ok(<<>>, <<>>)

CallGetGlsUnc ==
    \E V \in GlsV, X \in GlsX :
        /\ Idle
        /\ op' = "get_gls_unc"
        /\ args' = [V |-> V, X |-> X]
        /\ out' = get_gls_unc(V, X)

CallGetGlsEstimate ==
    \E Y \in GlsY, V \in GlsV, X \in GlsX :
        /\ Idle
        /\ op' = "get_gls_estimate"
        /\ args' = [Y |-> Y, V |-> V, X |-> X]
        /\ out' = get_gls_estimate(Y, V, X)

NextGLS == CallGetGlsUnc \/ CallGetGlsEstimate \/ Return

SpecGLS == Init /\ [][NextGLS]_vars

CallCheckPPP ==
    \E V \in PppV, verbose \in BOOLEAN :
        /\ Idle
        /\ op' = "check_2x2_matrix_for_PPP"
        /\ args' = [V |-> V, verbose |-> verbose]
        /\ out' = check_2x2_matrix_for_PPP(V, verbose)

NextPPP == CallCheckPPP \/ Return

SpecPPP == Init /\ [][NextPPP]_vars

CallCalcMPlusW ==
    \E p \in 1..2 :
        \E P \in Column(p, 0..MaxVal), M_inv \in MwMinv(p), T \in Column(2, 0..MaxVal),
           res \in Column(2, 0..1), V \in MwV, G \in MwG(p) :
          LET D == np_add(T, res) IN
            /\ Idle
            /\ op' = "calc_m_plus_w"
            /\ args' = [P |-> P, M_inv |-> M_inv, D |-> D, V |-> V, T |-> T, G |-> G]
            /\ out' = calc_m_plus_w(P, M_inv, D, V, T, G)

NextMW == CallCalcMPlusW \/ Return

SpecMW == Init /\ [][NextMW]_vars

CallMethod1 ==
    \E r \in Counts, dr \in CountUncs, n \in Norms, dn \in NormUncs :
        /\ Idle
        /\ op' = "method1"
        /\ args' = [r |-> r, dr |-> dr, n |-> n, dn |-> dn]
        /\ out' = method1(r, dr, n, dn)

CallMethod2 ==
    \E r \in Counts, dr \in CountUncs, n \in Norms, dn \in NormUncs,
       sens_method \in Variants, counts_method \in Variants :
        /\ Idle
        /\ op' = "method2"
        /\ args' = [r |-> r, dr |-> dr, n |-> n, dn |-> dn,
                    sens_method |-> sens_method, counts_method |-> counts_method]
        /\ out' = method2(r, dr, n, dn, sens_method, counts_method)

CallMethod2a ==
    \E r \in Counts, dr \in CountUncs, n \in Norms, dn \in NormUncs :
        /\ Idle
        /\ op' = "method2a"
        /\ args' = [r |-> r, dr |-> dr, n |-> n, dn |-> dn]
        /\ out' = method2a(r, dr, n, dn)

CallMethod2b ==
    \E r \in Counts, dr \in CountUncs, n \in Norms, dn \in NormUncs :
        /\ Idle
        /\ op' = "method2b"
        /\ args' = [r |-> r, dr |-> dr, n |-> n, dn |-> dn]
        /\ out' = method2b(r, dr, n, dn)

NextMethods == CallMethod1 \/ CallMethod2 \/ CallMethod2a \/ CallMethod2b \/ Return

SpecMethods == Init /\ [][NextMethods]_vars

-----------------------------------------------------------------------------
(* Claims about the GLS engine, under SpecGLS.                             *)

IsUnc == op = "get_gls_unc"

IsEst == op = "get_gls_estimate"

\* X is absent, or has as many rows as V (V of rank >= 1)
XConforms(V, Xopt) ==
    Xopt = <<>> \/ (Rank(Xopt[1]) >= 1 /\ Xopt[1].shape[1] = V.shape[1])

\* X is given, has rows, and their number is not V's
XRowsDiffer(V, Xopt) ==
    Xopt # <<>> /\ Rank(Xopt[1]) >= 1 /\ Xopt[1].shape[1] # V.shape[1]

IsSquare2D(V) == Rank(V) = 2 /\ V.shape[1] = V.shape[2]

\* Y is not a single column with as many rows as the square V
MalformedY(Y, V) == Rank(Y) # 2 \/ Y.shape[2] # 1 \/ Y.shape[1] # V.shape[1]

UncLog == <<"inv", "matmul", "matmul", "inv", "sqrt">>

(* C1: get_gls_unc ends in a shape error (AssertionError) exactly when V   *)
(* is not two-dimensional (message: must be 2-D), or two-dimensional and   *)
(* not square (message: must be square), or X's row count differs from V's *)
(* dimension (message: same number of rows); in every other case no shape  *)
(* error is raised.                                                        *)
C1_ShapeErrorExactly ==
    IsUnc =>
        /\ Rank(args.V) # 2 => out.kind = "AssertionError" /\ out.msg = Msg2D
        /\ Rank(args.V) = 2 /\ ~IsSquare2D(args.V)
              => out.kind = "AssertionError" /\ out.msg = MsgSquare
        /\ IsSquare2D(args.V) /\ XRowsDiffer(args.V, args.X)
              => out.kind = "AssertionError" /\ out.msg = MsgRows
        /\ IsSquare2D(args.V) /\ XConforms(args.V, args.X) => out.kind # "AssertionError"

(* C2: for every Y and every valid square V (one get_gls_unc accepts),     *)
(* get_gls_estimate raises the shape error (AssertionError) whenever Y is  *)
(* not a single column (a flat 1-D Y included) or its row count differs    *)
(* from V's dimension, and returns (estimate, uncertainty) otherwise.      *)
C2_EstimateShapeError ==
    IsEst /\ Rank(args.V) = 2 /\ get_gls_unc(args.V, args.X).kind = "ok" =>
        IF MalformedY(args.Y, args.V) THEN out.kind = "AssertionError"
        ELSE out.kind = "ok" /\ Len(out.val) = 2

(* C3 as claimed: every shape error of get_gls_unc and get_gls_estimate is *)
(* raised before any inverse or product is computed, and a malformed Y     *)
(* with a singular V ends in the shape error.                              *)
C3_ShapeErrorsBeforeNumericWork ==
    /\ (IsUnc \/ IsEst) /\ out.kind = "AssertionError" => out.log = <<>>
    /\ IsEst /\ IsSquare2D(args.V) /\ RIsZero(Det(args.V)) /\ XConforms(args.V, args.X)
          /\ MalformedY(args.Y, args.V)
          => out.kind = "AssertionError"

(* C3 as amended: the shape errors about V and X are raised before any     *)
(* inverse or product, in both functions; the shape errors about Y are     *)
(* raised after get_gls_unc has computed its two inverses, two products    *)
(* and the square root; a malformed Y with a singular V ends in the        *)
(* singular-matrix error of the first inverse, not in a shape error.       *)
C3_YCheckedAfterUncertainty ==
    /\ IsUnc /\ out.kind = "AssertionError" => out.log = <<>>
    /\ IsEst /\ out.kind = "AssertionError" /\ out.msg \in {Msg2D, MsgSquare, MsgRows}
          => out.log = <<>>
    /\ IsEst /\ out.kind = "AssertionError" /\ out.msg \in {MsgColumn, MsgYRows}
          => out.log = UncLog
    /\ IsEst /\ IsSquare2D(args.V) /\ RIsZero(Det(args.V)) /\ XConforms(args.V, args.X)
          /\ MalformedY(args.Y, args.V)
          => out.kind = "LinAlgError" /\ out.log = <<"inv">>

\* a malformed Y with a singular square V has ended in the singular-matrix error
C3_Witness ==
    /\ IsEst /\ IsSquare2D(args.V) /\ RIsZero(Det(args.V)) /\ XConforms(args.V, args.X)
    /\ MalformedY(args.Y, args.V)
    /\ out.kind = "LinAlgError"

-----------------------------------------------------------------------------
(* Claims about the PPP detector, under SpecPPP.                           *)

IsPPP == op = "check_2x2_matrix_for_PPP"

\* rho^2 = V01^2 / (V00 V11) and r^2 = min(V00/V11, V11/V00), without roots
RhoSq(V) == RDiv(RSq(At(V, 1, 2)), RMul(At(V, 1, 1), At(V, 2, 2)))

RatioSq(V) ==
    IF RLt(At(V, 1, 1), At(V, 2, 2)) THEN RDiv(At(V, 1, 1), At(V, 2, 2))
    ELSE RDiv(At(V, 2, 2), At(V, 1, 1))

\* rho > r: r is positive, so rho is positive and rho^2 > r^2
RhoExceedsRatio(V) == At(V, 1, 2)[1] > 0 /\ RLt(RatioSq(V), RhoSq(V))

(* C4: check_2x2_matrix_for_PPP returns None exactly when V's shape is not *)
(* (2,2); for a 2x2 V with positive diagonal it returns True iff rho > r,  *)
(* rho = V[0,1]/(sigma1*sigma2) and r = min(sigma1/sigma2, sigma2/sigma1)  *)
(* the real numbers, and False when rho = r; equal diagonals with rho = 0  *)
(* give False, rho = 1 with unequal diagonals gives True.                  *)
C4_PPPCriterion ==
    IsPPP =>
        /\ out.kind = "ok"
        /\ (out.val = <<>>) <=> (args.V.shape # <<2, 2>>)
        /\ args.V.shape = <<2, 2>> =>
              /\ out.val = <<RhoExceedsRatio(args.V)>>
              /\ At(args.V, 1, 2)[1] > 0 /\ RhoSq(args.V) = RatioSq(args.V)
                    => out.val = <<FALSE>>
              /\ At(args.V, 1, 1) = At(args.V, 2, 2) /\ RIsZero(At(args.V, 1, 2))
                    => out.val = <<FALSE>>
              /\ At(args.V, 1, 2)[1] > 0 /\ RhoSq(args.V) = RInt(1)
                    /\ At(args.V, 1, 1) # At(args.V, 2, 2)
                    => out.val = <<TRUE>>

\* data columns Y of two distinct values among -MaxVal..MaxVal
AgreeY == {Y \in Column(2, (0 - MaxVal)..MaxVal) : Y.flat[1] # Y.flat[2]}

\* V is a symmetric positive-definite 2x2 matrix
IsSPD2(V) ==
    /\ V.shape = <<2, 2>> /\ At(V, 1, 2) = At(V, 2, 1)
    /\ At(V, 1, 1)[1] > 0 /\ Det(V)[1] > 0

\* the GLS average of Y under V with the default design of ones
GlsAverage(Y, V) == At(get_gls_estimate(Y, V, <<>>).val[1], 1, 1)

\* x lies strictly outside [min(Y), max(Y)]
OutsideRange(x, Y) ==
    \/ RLt(x, Y.flat[1]) /\ RLt(x, Y.flat[2])
    \/ RLt(Y.flat[1], x) /\ RLt(Y.flat[2], x)

(* C11: for every symmetric positive-definite 2x2 V and every data column  *)
(* Y of two distinct values, check_2x2_matrix_for_PPP(V) returns True      *)
(* exactly when the get_gls_estimate(Y, V) average lies strictly outside   *)
(* [min(Y), max(Y)], and False exactly when it lies within.                *)
C11_DetectorAgreesWithGLS ==
    IsPPP /\ IsSPD2(args.V) =>
        \A Y \in AgreeY :
            /\ get_gls_estimate(Y, args.V, <<>>).kind = "ok"
            /\ out.val = <<OutsideRange(GlsAverage(Y, args.V), Y)>>

-----------------------------------------------------------------------------
(* Claims about the M+W update, under SpecMW.                              *)

IsMW == op = "calc_m_plus_w"

(* C5: calc_m_plus_w with D equal to T returns P' equal to P, whatever V   *)
(* and G are, whenever the update completes.                               *)
C5_ZeroInformation ==
    IsMW /\ args.D = args.T /\ out.kind = "ok" => out.val[1] = args.P

\* an update with D = T # 0, a correlated V and two parameters has completed
C5_Witness ==
    /\ IsMW /\ args.D = args.T /\ out.kind = "ok"
    /\ \E k \in 1..2 : ~RIsZero(args.D.flat[k])
    /\ ~RIsZero(At(args.V, 1, 2))
    /\ Cols(args.G) = 2

-----------------------------------------------------------------------------
(* Claims about the normalization methods, under SpecMethods.              *)

IsMethod == op \in {"method1", "method2", "method2a", "method2b"}

\* how many times the operation e occurs in a log
Count(log, e) == Cardinality({i \in DOMAIN log : log[i] = e})

\* the place of the last occurrence of e in a log that holds one
LastOf(log, e) == CHOOSE i \in DOMAIN log : log[i] = e /\ \A j \in DOMAIN log : log[j] = e => j <= i

DrNonzero == ~RIsZero(args.dr[1]) /\ ~RIsZero(args.dr[2])

InvalidVariant(v) == v \notin {"exp", "theo"}

(* C6 as claimed: an invalid sens_method or counts_method ends method2 in  *)
(* the unknown-variant error (NameError), raised before any matrix is      *)
(* constructed and before any GLS estimate or M+W update is run.           *)
C6_VariantErrorBeforeAnyWork ==
    op = "method2" /\ (InvalidVariant(args.sens_method) \/ InvalidVariant(args.counts_method))
        => out.kind = "NameError" /\ out.log = <<>>

(* C6 as amended: an invalid counts_method ends method2 in NameError after *)
(* D and dr^2 are built and nothing else is done; an invalid sens_method   *)
(* with counts_method "theo" ends in NameError after D, dr^2 and the mean; *)
(* an invalid sens_method with counts_method "exp" is detected only after  *)
(* Method 1 has run (its six arrays, one GLS estimate and one M+W update): *)
(* the call ends in NameError if Method 1 returns, and in Method 1's       *)
(* singular-matrix error if dr holds a zero.  In no case is method2's own  *)
(* V built or its own M+W update run.                                      *)
C6_VariantErrorAfterPrior ==
    op = "method2" /\ (InvalidVariant(args.sens_method) \/ InvalidVariant(args.counts_method))
        => /\ InvalidVariant(args.counts_method)
                => out.kind = "NameError" /\ out.log = <<"array", "array">>
           /\ args.counts_method = "theo"
                => out.kind = "NameError" /\ out.log = <<"array", "array", "mean">>
           /\ args.counts_method = "exp" /\ DrNonzero
                => /\ out.kind = "NameError"
                   /\ SubSeq(out.log, 1, 3) = <<"array", "array", "method1">>
                   /\ Count(out.log, "array") = 8
                   /\ Count(out.log, "get_gls_estimate") = 1
                   /\ Count(out.log, "calc_m_plus_w") = 1
           /\ args.counts_method = "exp" /\ ~DrNonzero
                => out.kind = "LinAlgError" /\ Count(out.log, "calc_m_plus_w") = 0

\* an invalid sens_method with counts_method "exp" was rejected after Method 1 ran
C6_Witness ==
    /\ op = "method2" /\ InvalidVariant(args.sens_method) /\ args.counts_method = "exp"
    /\ out.kind = "NameError"
    /\ Count(out.log, "calc_m_plus_w") = 1

(* C7 as claimed: each successful call of method1, method2, method2a or    *)
(* method2b runs calc_m_plus_w exactly once.                               *)
C7_OneUpdatePerCall ==
    IsMethod /\ out.kind = "ok" => Count(out.log, "calc_m_plus_w") = 1

\* the call takes its prior X from a nested call of method1
PriorByMethod1 == op = "method2a" \/ (op = "method2" /\ args.counts_method = "exp")

(* C7 as amended: a successful call of method1, of method2b or of method2  *)
(* with counts_method "theo" runs calc_m_plus_w exactly once; a successful *)
(* call of method2a or of method2 with counts_method "exp" runs it exactly *)
(* twice, once inside the nested method1 call that gives the prior X and   *)
(* once for its own update.  The call's own update is the last: it comes   *)
(* right after the arrays of the call are built (P, M_inv, T, G, and V for *)
(* method2), and no array is built after it.                               *)
C7_UpdatesPerCall ==
    IsMethod /\ out.kind = "ok" =>
        LET last == LastOf(out.log, "calc_m_plus_w")
            built == IF op = "method1" THEN 4 ELSE 5
        IN  /\ Count(out.log, "calc_m_plus_w") = IF PriorByMethod1 THEN 2 ELSE 1
            /\ Count(out.log, "method1") = IF PriorByMethod1 THEN 1 ELSE 0
            /\ \A i \in (last - built)..(last - 1) : out.log[i] = "array"
            /\ \A i \in (last + 1)..Len(out.log) : out.log[i] # "array"

\* a successful call of method2a has run the update twice
C7_Witness ==
    op = "method2a" /\ out.kind = "ok" /\ Count(out.log, "calc_m_plus_w") = 2

\* the dr^-2-weighted average of r
WeightedMean(r, dr) ==
    RDiv(RAdd(RDiv(r[1], RSq(dr[1])), RDiv(r[2], RSq(dr[2]))),
         RAdd(RDiv(RInt(1), RSq(dr[1])), RDiv(RInt(1), RSq(dr[2]))))

(* C8: for nonzero dr, n and dn, method1 returns P' equal to its prior     *)
(* P = [X, n], X the dr^-2-weighted average of r divided by n; P' is the   *)
(* same for every dn, and M' is not.                                       *)
C8_Method1KeepsPrior ==
    op = "method1" /\ DrNonzero =>
        /\ out.kind = "ok"
        /\ out.val[1] = Mat(2, 1, <<<<RDiv(WeightedMean(args.r, args.dr), args.n)>>, <<args.n>>>>)
        /\ \A dn2 \in NormUncs :
              /\ method1(args.r, args.dr, args.n, dn2).val[1] = out.val[1]
              /\ dn2 # args.dn => method1(args.r, args.dr, args.n, dn2).val[2] # out.val[2]

\* method1 has returned for distinct counts, distinct uncertainties and n # 1
C8_Witness ==
    /\ op = "method1" /\ DrNonzero /\ out.kind = "ok"
    /\ args.r[1] # args.r[2] /\ args.dr[1] # args.dr[2] /\ args.n # RInt(1)

(* C9: for valid inputs (nonzero dr), method2a returns the same X estimate *)
(* P'[0,0] and the same X variance M'[0,0] as method1.                     *)
C9_Method2aEqualsMethod1 ==
    op = "method2a" /\ DrNonzero =>
        /\ out.kind = "ok"
        /\ At(out.val[1], 1, 1) = At(method1(args.r, args.dr, args.n, args.dn).val[1], 1, 1)
        /\ At(out.val[2], 1, 1) = At(method1(args.r, args.dr, args.n, args.dn).val[2], 1, 1)

\* method2a has returned for distinct counts and distinct uncertainties
C9_Witness ==
    /\ op = "method2a" /\ DrNonzero /\ out.kind = "ok"
    /\ args.r[1] # args.r[2] /\ args.dr[1] # args.dr[2]

\* the unweighted mean (r[0] + r[1]) / (2n)
PlainMean(r, n) == RDiv(RAdd(r[1], r[2]), RMul(RInt(2), n))

(* C10: for valid inputs (counts not both zero), method2b returns P'[0,0]  *)
(* equal to the unweighted mean X = (r[0] + r[1]) / (2n), whatever dr and  *)
(* dn are, and M'[0,0] equal to X/(2n) + (dn^2/n^2) X^2.                   *)
C10_Method2bUnweighted ==
    op = "method2b" =>
        /\ ~RIsZero(RAdd(args.r[1], args.r[2])) => out.kind = "ok"
        /\ out.kind = "ok" =>
              /\ out.val[1] = Mat(1, 1, <<<<PlainMean(args.r, args.n)>>>>)
              /\ At(out.val[2], 1, 1) =
                    RAdd(RDiv(PlainMean(args.r, args.n), RMul(RInt(2), args.n)),
                         RMul(RDiv(RSq(args.dn), RSq(args.n)), RSq(PlainMean(args.r, args.n))))

\* method2b has returned for distinct counts and distinct nonzero uncertainties
C10_Witness ==
    /\ op = "method2b" /\ out.kind = "ok" /\ DrNonzero
    /\ args.r[1] # args.r[2] /\ args.dr[1] # args.dr[2]

====
